---- MODULE Spec2Model ----
(***************************************************************************)
(* Stackd: a client-side compound-growth calculator.  The module models    *)
(* the projection engine (frequency resolver, balance calculator,          *)
(* trajectory generator, validation gate) and the two Home page variants   *)
(* that drive it through React state hooks and useMemo caches.             *)
(*                                                                         *)
(* JavaScript numbers are modelled as exact rationals [num, den] in lowest *)
(* terms (den > 0); rounding error of IEEE doubles is not modelled.  The   *)
(* value of parseFloat on an empty number field is the token NaN.          *)
(***************************************************************************)
EXTENDS Integers, Sequences, FiniteSets, TLC

VARIABLES
    variant,                 \* which of the two Home pages is mounted (1 or 2)
    initialInvestment,       \* useState<string>: "" or a numeric text
    monthlyContribution,
    lengthOfTime,
    annualReturn,
    compoundFrequency,       \* useState<CompoundFrequency>
    accountType,             \* useState<AccountType>
    tfsaAnnualContribution,  \* variant 2 only
    tfsaContributionYears,   \* variant 2 only
    rrspAnnualIncome,        \* variant 2 only
    rrspAnnualContribution,  \* variant 2 only
    fhsaAnnualContribution,  \* variant 2 only
    respAnnualContribution,  \* variant 2 only
    effectiveMonthly,        \* useMemo caches of the mounted page
    results,
    chartData,
    comparisonScenarios,
    accountWarning,
    accountConfirmation,
    args,                    \* arguments of a direct call of the engine
    ret                      \* what that call returned

fieldVars == <<initialInvestment, monthlyContribution, lengthOfTime, annualReturn,
               compoundFrequency, accountType, tfsaAnnualContribution,
               tfsaContributionYears, rrspAnnualIncome, rrspAnnualContribution,
               fhsaAnnualContribution, respAnnualContribution>>
memoVars == <<effectiveMonthly, results, chartData, comparisonScenarios,
              accountWarning, accountConfirmation>>
callVars == <<args, ret>>
vars == <<variant, fieldVars, memoVars, callVars>>

-----------------------------------------------------------------------------
(* Numbers *)

Abs(i) == IF i < 0 THEN -i ELSE i

RECURSIVE GCD(_, _)
GCD(a, b) == IF b = 0 THEN a ELSE GCD(b, a % b)

\* n/d in lowest terms with a positive denominator
Lowest(n, d, s, g) == [num |-> (s * n) \div g, den |-> (s * d) \div g]
Rat(n, d) == Lowest(n, d, IF d < 0 THEN -1 ELSE 1, GCD(Abs(n), Abs(d)))

Num(i) == [num |-> i, den |-> 1]
Zero == Num(0)
One == Num(1)

SumOver(x, y, g) ==
    Rat(x.num * (y.den \div g) + y.num * (x.den \div g), (x.den \div g) * y.den)
RAdd(x, y) == SumOver(x, y, GCD(x.den, y.den))

RNeg(x) == [num |-> -x.num, den |-> x.den]
RSub(x, y) == RAdd(x, RNeg(y))

\* cross-reduced before multiplying, so that the factors stay small
ProductOver(x, y, g1, g2) ==
    Rat((x.num \div g1) * (y.num \div g2), (x.den \div g2) * (y.den \div g1))
RMul(x, y) == ProductOver(x, y, GCD(Abs(x.num), y.den), GCD(Abs(y.num), x.den))

\* y # 0 at every use: the code divides by r / n only under r > 0
RDiv(x, y) ==
    RMul(x, IF y.num < 0 THEN [num |-> -y.den, den |-> -y.num]
            ELSE [num |-> y.den, den |-> y.num])

\* x < y, comparing the integer parts first and the fractional parts by
\* cross-multiplication; every comparison with NaN is false
Less(x, y, fx, fy, g) ==
    IF fx # fy THEN fx < fy
    ELSE (x.num % x.den) * (y.den \div g) < (y.num % y.den) * (x.den \div g)
RLt(x, y) ==
    /\ x.den # 0 /\ y.den # 0
    /\ Less(x, y, x.num \div x.den, y.num \div y.den, GCD(x.den, y.den))

RLe(x, y) == x.den # 0 /\ y.den # 0 /\ ~RLt(y, x)
RGt(x, y) == RLt(y, x)
RGe(x, y) == RLe(y, x)

IsInteger(x) == x.den = 1

MathFloor(x) == x.num \div x.den
MathRound(x) == MathFloor(RAdd(x, [num |-> 1, den |-> 2]))
MathMin(x, y) == IF RLt(y, x) THEN y ELSE x

Square(h) == RMul(h, h)

RECURSIVE IntPow(_, _)
IntPow(x, k) ==
    IF k = 0 THEN One
    ELSE IF k % 2 = 0 THEN Square(IntPow(x, k \div 2))
    ELSE RMul(x, IntPow(x, k - 1))

\* the one non-number: parseFloat of a text that holds no number
NaN == [num |-> 0, den |-> 0]

\* the square root of a fraction whose terms are squares of at most RootCap
RootCap == 100
HasRoot(x) ==
    /\ \E s \in 0..RootCap : s * s = x.num
    /\ \E s \in 1..RootCap : s * s = x.den

MathSqrt(x) ==
    [num |-> CHOOSE s \in 0..RootCap : s * s = x.num,
     den |-> CHOOSE s \in 1..RootCap : s * s = x.den]

\* Math.pow(base, e).  A base of 1 gives 1 for every exponent; otherwise the
\* result is rational for a whole exponent >= 0 and, when the base has a
\* rational square root, for half a whole exponent; the input guards of the
\* specifications (Representable) keep every call inside these cases.
MathPow(base, e) ==
    IF base = One THEN One
    ELSE IF IsInteger(e) /\ e.num >= 0 THEN IntPow(base, e.num)
    ELSE IF e.den = 2 /\ e.num > 0 /\ HasRoot(base) THEN IntPow(MathSqrt(base), e.num)
    ELSE NaN

\* The texts the model types into the number fields, with the number each
\* one denotes.
DecimalValue ==
    [s \in {"-8000", "-500", "-6", "-1", "0", "1", "3", "5", "10", "100", "101",
            "500", "1000", "2500", "3000", "6000", "7000", "7001", "8000", "8001",
            "18000", "31561", "36000", "40000", "50001", "100000", "200000"} |->
        CASE s = "-8000" -> -8000 [] s = "-500" -> -500 [] s = "-6" -> -6
          [] s = "-1" -> -1 [] s = "0" -> 0 [] s = "1" -> 1 [] s = "3" -> 3
          [] s = "5" -> 5 [] s = "10" -> 10 [] s = "100" -> 100 [] s = "101" -> 101
          [] s = "500" -> 500 [] s = "1000" -> 1000 [] s = "2500" -> 2500
          [] s = "3000" -> 3000
          [] s = "6000" -> 6000 [] s = "7000" -> 7000 [] s = "7001" -> 7001
          [] s = "8000" -> 8000 [] s = "8001" -> 8001 [] s = "18000" -> 18000
          [] s = "31561" -> 31561 [] s = "36000" -> 36000
          [] s = "40000" -> 40000 [] s = "50001" -> 50001
          [] s = "100000" -> 100000 [] s = "200000" -> 200000]

\* parseFloat of the text of an <input type="number">: the text is empty or
\* a decimal numeral; "0.5", "1.5" and "2.5" are the fractional ones
parseFloat(s) ==
    CASE s = "0.5" -> [num |-> 1, den |-> 2]
      [] s = "1.5" -> [num |-> 3, den |-> 2]
      [] s = "2.5" -> [num |-> 5, den |-> 2]
      [] s \in DOMAIN DecimalValue -> Num(DecimalValue[s])
      [] OTHER -> NaN

\* x || 0 : NaN and 0 are falsy
OrZero(x) == IF x = NaN \/ x = Zero THEN Zero ELSE x

\* null and a non-null value of a nullable
Null == <<>>
Some(x) == <<x>>

-----------------------------------------------------------------------------
(* Frequency resolver *)

CompoundFrequency == {"Annually", "Semi-Annually", "Quarterly", "Monthly", "Daily"}

\* an unrecognised frequency taken as annual compounding
\* the daily frequency counted over a leap year
getCompoundFrequencyPerYearLeapYear(frequency) ==
    CASE frequency = "Annually" -> 1
      [] frequency = "Semi-Annually" -> 2
      [] frequency = "Quarterly" -> 4
      [] frequency = "Monthly" -> 12
      [] frequency = "Daily" -> 366
      [] OTHER -> 12

getCompoundFrequencyPerYearDefaultAnnual(frequency) ==
    CASE frequency = "Annually" -> 1
      [] frequency = "Semi-Annually" -> 2
      [] frequency = "Quarterly" -> 4
      [] frequency = "Monthly" -> 12
      [] frequency = "Daily" -> 365
      [] OTHER -> 1

getCompoundFrequencyPerYear(frequency) ==
    CASE frequency = "Annually" -> 1
      [] frequency = "Semi-Annually" -> 2
      [] frequency = "Quarterly" -> 4
      [] frequency = "Monthly" -> 12
      [] frequency = "Daily" -> 365
      [] OTHER -> 12

\* a thirty-day month in the daily conversion (breaks the zero-rate identity)
getContributionPerPeriodThirtyDays(monthly, frequency) ==
    CASE frequency = "Annually" -> RMul(monthly, Num(12))
      [] frequency = "Semi-Annually" -> RMul(monthly, Num(6))
      [] frequency = "Quarterly" -> RMul(monthly, Num(3))
      [] frequency = "Monthly" -> monthly
      [] frequency = "Daily" -> RDiv(monthly, Num(30))
      [] OTHER -> monthly

getContributionPerPeriod(monthly, frequency) ==
    CASE frequency = "Annually" -> RMul(monthly, Num(12))
      [] frequency = "Semi-Annually" -> RMul(monthly, Num(6))
      [] frequency = "Quarterly" -> RMul(monthly, Num(3))
      [] frequency = "Monthly" -> monthly
      [] frequency = "Daily" -> RDiv(monthly, RDiv(Num(365), Num(12)))
      [] OTHER -> monthly

-----------------------------------------------------------------------------
(* Balance calculator and trajectory generator *)

\* the principal compounded over one period too many
compoundPrincipalOnePeriodMore(P, r, n, t) ==
    RMul(P, MathPow(RAdd(One, RDiv(r, Num(n))), RAdd(RMul(Num(n), t), One)))

\* const compoundPrincipal = P * Math.pow(1 + r / n, n * t)
compoundPrincipal(P, r, n, t) ==
    RMul(P, MathPow(RAdd(One, RDiv(r, Num(n))), RMul(Num(n), t)))

\* the annuity factor with its sign slipped: (1 - growth) / (r/n)
annuityValueSignSlip(PMT, r, n, t) ==
    IF RGt(r, Zero)
    THEN RMul(PMT, RDiv(RSub(One, MathPow(RAdd(One, RDiv(r, Num(n))), RMul(Num(n), t))),
                        RDiv(r, Num(n))))
    ELSE RMul(RMul(PMT, Num(n)), t)

\* the annuity factor divided by the yearly rate r instead of r / n
annuityValueYearlyRate(PMT, r, n, t) ==
    IF RGt(r, Zero)
    THEN RMul(PMT, RDiv(RSub(MathPow(RAdd(One, RDiv(r, Num(n))), RMul(Num(n), t)), One),
                        r))
    ELSE RMul(RMul(PMT, Num(n)), t)

annuityValue(PMT, r, n, t) ==
    IF RGt(r, Zero)
    THEN RMul(PMT, RDiv(RSub(MathPow(RAdd(One, RDiv(r, Num(n))), RMul(Num(n), t)), One),
                        RDiv(r, Num(n))))
    ELSE RMul(RMul(PMT, Num(n)), t)

\* the interest taken as totalContributed - totalBalance
totalsInterestReversed(totalBalance, totalContributed) ==
    [totalBalance |-> totalBalance,
     totalContributed |-> totalContributed,
     totalInterest |-> RSub(totalContributed, totalBalance)]

\* the returned object, totalInterest = totalBalance - totalContributed
totals(totalBalance, totalContributed) ==
    [totalBalance |-> totalBalance,
     totalContributed |-> totalContributed,
     totalInterest |-> RSub(totalBalance, totalContributed)]

calculateCompoundInterest(initial, monthly, annualRate, years, frequency) ==
    totals(RAdd(compoundPrincipal(initial, RDiv(annualRate, Num(100)),
                                  getCompoundFrequencyPerYear(frequency), years),
                annuityValue(getContributionPerPeriod(monthly, frequency),
                             RDiv(annualRate, Num(100)),
                             getCompoundFrequencyPerYear(frequency), years)),
           RAdd(initial, RMul(RMul(monthly, Num(12)), years)))

labelYears(years) ==
    {Zero,
     Num(MathRound(RMul(years, Rat(1, 4)))),
     Num(MathRound(RMul(years, Rat(1, 2)))),
     Num(MathRound(RMul(years, Rat(3, 4)))),
     years}

\* one iteration of the loop: the object pushed for year t
dataPoint(initial, monthly, r, n, PMT, labels, t) ==
    [year |-> t,
     totalBalance |->
         RAdd(RMul(initial, MathPow(RAdd(One, RDiv(r, Num(n))), Num(n * t))),
              IF RGt(r, Zero)
              THEN RMul(PMT, RDiv(RSub(MathPow(RAdd(One, RDiv(r, Num(n))), Num(n * t)), One),
                                  RDiv(r, Num(n))))
              ELSE RMul(RMul(PMT, Num(n)), Num(t))),
     totalContributed |-> RAdd(initial, RMul(RMul(monthly, Num(12)), Num(t))),
     showLabel |-> Num(t) \in labels]

\* for (let t = 0; t <= years; t++): t runs over 0 .. floor(years)
data(initial, monthly, r, n, PMT, labels, count) ==
    [i \in 1..count |-> dataPoint(initial, monthly, r, n, PMT, labels, i - 1)]

calculateYearlyData(initial, monthly, annualRate, years, frequency) ==
    data(initial, monthly, RDiv(annualRate, Num(100)),
         getCompoundFrequencyPerYear(frequency),
         getContributionPerPeriod(monthly, frequency),
         labelYears(years),
         IF RLt(years, Zero) THEN 0 ELSE MathFloor(years) + 1)

\* the gate with a zero principal accepted
isValidInputsZeroPrincipal(initial, monthly, years, returnRate) ==
    /\ (RGe(initial, Zero) \/ RGt(monthly, Zero))
    /\ RGt(years, Zero)
    /\ RLe(years, Num(100))
    /\ RGe(returnRate, Zero)
    /\ RLe(returnRate, Num(100))

isValidInputs(initial, monthly, years, returnRate) ==
    /\ (RGt(initial, Zero) \/ RGt(monthly, Zero))
    /\ RGt(years, Zero)
    /\ RLe(years, Num(100))
    /\ RGe(returnRate, Zero)
    /\ RLe(returnRate, Num(100))

-----------------------------------------------------------------------------
(* Presentation helpers that the advisory texts interpolate *)

\* Number.prototype.toFixed(1) and Intl's maximumFractionDigits: 0, both
\* rounding half away from zero; the text is held as the number it shows
RoundHalfAway(x) ==
    IF x.num >= 0 THEN MathFloor(RAdd(x, [num |-> 1, den |-> 2]))
    ELSE -MathFloor(RAdd(RNeg(x), [num |-> 1, den |-> 2]))

toFixed1(x) == Rat(RoundHalfAway(RMul(x, Num(10))), 10)

\* 1_000_000_000_000 does not fit 32 bits: amount >= 10^12 is tested, and
\* amount / 10^12 computed, on amount / 10^6
abbreviated(millions) ==
    IF RGe(millions, Num(1000000))
    THEN [unit |-> "T", shown |-> toFixed1(RDiv(millions, Num(1000000)))]
    ELSE IF RGe(millions, Num(1000))
    THEN [unit |-> "B", shown |-> toFixed1(RDiv(millions, Num(1000)))]
    ELSE [unit |-> "M", shown |-> toFixed1(millions)]

formatCurrency(amount) ==
    IF RGe(amount, Num(1000000))
    THEN abbreviated(RDiv(amount, Num(1000000)))
    ELSE [unit |-> "", shown |-> Num(RoundHalfAway(amount))]

-----------------------------------------------------------------------------
(* Home, variant 2 (violet theme): the useMemo bodies.  Each takes the values *)
(* its closure reads.                                                         *)

\* RESP: the annual contribution plus the grant, min(20%, 500), per month
respEffectiveMonthly(annual) ==
    RDiv(RAdd(annual, MathMin(RMul(annual, Rat(20, 100)), Num(500))), Num(12))

\* the RRSP branch with the general monthly contribution added on top
effectiveMonthlyBodyAdding(accountType_, tfsaAnnualContribution_, rrspAnnualContribution_, fhsaAnnualContribution_, respAnnualContribution_, monthlyContribution_) ==
    IF accountType_ = "TFSA"
    THEN RDiv(OrZero(parseFloat(tfsaAnnualContribution_)), Num(12))
    ELSE IF accountType_ = "RRSP"
    THEN RAdd(RDiv(OrZero(parseFloat(rrspAnnualContribution_)), Num(12)),
              OrZero(parseFloat(monthlyContribution_)))
    ELSE IF accountType_ = "FHSA"
    THEN RDiv(OrZero(parseFloat(fhsaAnnualContribution_)), Num(12))
    ELSE IF accountType_ = "RESP"
    THEN respEffectiveMonthly(OrZero(parseFloat(respAnnualContribution_)))
    ELSE OrZero(parseFloat(monthlyContribution_))

effectiveMonthlyBody(accountType_, tfsaAnnualContribution_, rrspAnnualContribution_, fhsaAnnualContribution_, respAnnualContribution_, monthlyContribution_) ==
    IF accountType_ = "TFSA"
    THEN RDiv(OrZero(parseFloat(tfsaAnnualContribution_)), Num(12))
    ELSE IF accountType_ = "RRSP"
    THEN RDiv(OrZero(parseFloat(rrspAnnualContribution_)), Num(12))
    ELSE IF accountType_ = "FHSA"
    THEN RDiv(OrZero(parseFloat(fhsaAnnualContribution_)), Num(12))
    ELSE IF accountType_ = "RESP"
    THEN respEffectiveMonthly(OrZero(parseFloat(respAnnualContribution_)))
    ELSE OrZero(parseFloat(monthlyContribution_))

\* the three gated memos on the parsed values
gatedResults(initial, monthly, years, returnRate, frequency) ==
    IF ~isValidInputs(initial, monthly, years, returnRate) THEN Null
    ELSE Some(calculateCompoundInterest(initial, monthly, returnRate, years, frequency))

\* the trajectory gated on a horizon of at least one year
gatedChartDataFromOneYear(initial, monthly, years, returnRate, frequency) ==
    IF ~isValidInputs(initial, monthly, years, returnRate) \/ RLt(years, One) THEN Null
    ELSE Some(calculateYearlyData(initial, monthly, returnRate, years, frequency))

gatedChartData(initial, monthly, years, returnRate, frequency) ==
    IF ~isValidInputs(initial, monthly, years, returnRate) THEN Null
    ELSE Some(calculateYearlyData(initial, monthly, returnRate, years, frequency))

\* a delayed scenario: label, shortened horizon t, and its projection `wait`
delayed(label, t, wait, startNowBalance) ==
    [label |-> label, years |-> t,
     totalBalance |-> wait.totalBalance, highlight |-> FALSE,
     missedAmount |-> RSub(startNowBalance, wait.totalBalance)]

\* scenarios with the thresholds written as strict comparisons
scenariosStrict(initial, monthly, years, returnRate, frequency, startNowBalance) ==
    <<[label |-> "Start Now", years |-> years,
       totalBalance |-> startNowBalance, highlight |-> TRUE,
       missedAmount |-> Zero]>>
    \o (IF RGt(years, Num(5))
        THEN <<delayed("Wait 5 Years", RSub(years, Num(5)),
                       calculateCompoundInterest(initial, monthly, returnRate,
                                                 RSub(years, Num(5)), frequency),
                       startNowBalance)>>
        ELSE <<>>)
    \o (IF RGt(years, Num(10))
        THEN <<delayed("Wait 10 Years", RSub(years, Num(10)),
                       calculateCompoundInterest(initial, monthly, returnRate,
                                                 RSub(years, Num(10)), frequency),
                       startNowBalance)>>
        ELSE <<>>)

scenarios(initial, monthly, years, returnRate, frequency, startNowBalance) ==
    <<[label |-> "Start Now", years |-> years,
       totalBalance |-> startNowBalance, highlight |-> TRUE,
       missedAmount |-> Zero]>>
    \o (IF RGe(years, Num(5))
        THEN <<delayed("Wait 5 Years", RSub(years, Num(5)),
                       calculateCompoundInterest(initial, monthly, returnRate,
                                                 RSub(years, Num(5)), frequency),
                       startNowBalance)>>
        ELSE <<>>)
    \o (IF RGe(years, Num(10))
        THEN <<delayed("Wait 10 Years", RSub(years, Num(10)),
                       calculateCompoundInterest(initial, monthly, returnRate,
                                                 RSub(years, Num(10)), frequency),
                       startNowBalance)>>
        ELSE <<>>)

gatedScenarios(initial, monthly, years, returnRate, frequency) ==
    IF ~isValidInputs(initial, monthly, years, returnRate) THEN Null
    ELSE Some(scenarios(initial, monthly, years, returnRate, frequency,
                        calculateCompoundInterest(initial, monthly, returnRate, years,
                                                  frequency).totalBalance))

\* results: `monthly` is effectiveMonthly in variant 2 and
\* parseFloat(monthlyContribution) || 0 in variant 1
resultsBody(initialInvestment_, monthly, lengthOfTime_, annualReturn_, compoundFrequency_) ==
    gatedResults(OrZero(parseFloat(initialInvestment_)), monthly,
                 OrZero(parseFloat(lengthOfTime_)), OrZero(parseFloat(annualReturn_)),
                 compoundFrequency_)

chartDataBody(initialInvestment_, monthly, lengthOfTime_, annualReturn_, compoundFrequency_) ==
    gatedChartData(OrZero(parseFloat(initialInvestment_)), monthly,
                   OrZero(parseFloat(lengthOfTime_)), OrZero(parseFloat(annualReturn_)),
                   compoundFrequency_)

comparisonScenariosBody(initialInvestment_, monthly, lengthOfTime_, annualReturn_, compoundFrequency_) ==
    gatedScenarios(OrZero(parseFloat(initialInvestment_)), monthly,
                   OrZero(parseFloat(lengthOfTime_)), OrZero(parseFloat(annualReturn_)),
                   compoundFrequency_)

\* An advisory text: the template literal and the values interpolated in it
Message(template, shown) == Some([template |-> template, shown |-> shown])

\* The account-specific branches of variant 2's accountWarning

\* the cap itself taken as exceeding it
tfsaWarningAtCap(annual) ==
    IF RGe(annual, Num(7000))
    THEN Message("You've exceeded the $7,000 annual TFSA limit", <<>>)
    ELSE Null

tfsaWarning(annual) ==
    IF RGt(annual, Num(7000))
    THEN Message("You've exceeded the $7,000 annual TFSA limit", <<>>)
    ELSE Null

rrspOver(annual, limit) ==
    IF RGt(annual, limit)
    THEN Message("Your annual contribution exceeds your RRSP limit",
                 <<formatCurrency(annual), formatCurrency(limit)>>)
    ELSE Null

rrspWarning(income, annual) ==
    IF RGt(annual, Zero) /\ RGt(income, Zero)
    THEN rrspOver(annual, MathMin(RMul(income, Rat(18, 100)), Num(31560)))
    ELSE Null

fhsaHit(yearsUntilLimit) ==
    Message("You'll hit the $40,000 FHSA lifetime limit",
            <<[unit |-> IF yearsUntilLimit # 1 THEN "years" ELSE "year",
               shown |-> Num(yearsUntilLimit)]>>)

\* the FHSA lifetime check on the initial investment tried before the annual one
fhsaWarningSwapped(initial, annual, years) ==
    IF RGt(initial, Num(40000))
    THEN Message("Your initial investment exceeds the FHSA lifetime limit",
                 <<formatCurrency(initial)>>)
    ELSE IF RGt(annual, Num(8000))
    THEN Message("Your annual contribution exceeds the FHSA annual limit",
                 <<formatCurrency(annual)>>)
    ELSE IF RGt(annual, Zero) /\ RGt(RMul(annual, years), Num(40000))
    THEN fhsaHit(MathFloor(RDiv(Num(40000), annual)))
    ELSE Null

\* the FHSA annual check with a limit of 10,000
fhsaWarningLimitTenThousand(initial, annual, years) ==
    IF RGt(annual, Num(10000))
    THEN Message("Your annual contribution exceeds the FHSA annual limit",
                 <<formatCurrency(annual)>>)
    ELSE IF RGt(initial, Num(40000))
    THEN Message("Your initial investment exceeds the FHSA lifetime limit",
                 <<formatCurrency(initial)>>)
    ELSE IF RGt(annual, Zero) /\ RGt(RMul(annual, years), Num(40000))
    THEN fhsaHit(MathFloor(RDiv(Num(40000), annual)))
    ELSE Null

fhsaWarning(initial, annual, years) ==
    IF RGt(annual, Num(8000))
    THEN Message("Your annual contribution exceeds the FHSA annual limit",
                 <<formatCurrency(annual)>>)
    ELSE IF RGt(initial, Num(40000))
    THEN Message("Your initial investment exceeds the FHSA lifetime limit",
                 <<formatCurrency(initial)>>)
    ELSE IF RGt(annual, Zero) /\ RGt(RMul(annual, years), Num(40000))
    THEN fhsaHit(MathFloor(RDiv(Num(40000), annual)))
    ELSE Null

respWarning(initial, annual, years) ==
    IF RGt(annual, Zero) /\ RGt(RMul(annual, years), Num(50000))
    THEN Message("Your lifetime RESP contributions will exceed the $50,000 limit",
                 <<formatCurrency(RMul(annual, years))>>)
    ELSE IF RGt(initial, Num(50000))
    THEN Message("Your initial investment exceeds the RESP lifetime limit",
                 <<formatCurrency(initial)>>)
    ELSE Null

accountWarningBody(initialInvestment_, accountType_, tfsaAnnualContribution_, rrspAnnualIncome_, rrspAnnualContribution_, fhsaAnnualContribution_, respAnnualContribution_, lengthOfTime_) ==
    IF accountType_ = "" \/ accountType_ = "General" THEN Null
    ELSE IF accountType_ = "TFSA"
    THEN tfsaWarning(OrZero(parseFloat(tfsaAnnualContribution_)))
    ELSE IF accountType_ = "RRSP"
    THEN rrspWarning(OrZero(parseFloat(rrspAnnualIncome_)),
                     OrZero(parseFloat(rrspAnnualContribution_)))
    ELSE IF accountType_ = "FHSA"
    THEN fhsaWarning(OrZero(parseFloat(initialInvestment_)),
                     OrZero(parseFloat(fhsaAnnualContribution_)),
                     OrZero(parseFloat(lengthOfTime_)))
    ELSE IF accountType_ = "RESP"
    THEN respWarning(OrZero(parseFloat(initialInvestment_)),
                     OrZero(parseFloat(respAnnualContribution_)),
                     OrZero(parseFloat(lengthOfTime_)))
    ELSE Null

\* The account-specific branches of variant 2's accountConfirmation
tfsaConfirmation(annual) ==
    IF RGt(annual, Zero) /\ RLe(annual, Num(7000))
    THEN Message("Your annual contribution is within the TFSA limit",
                 <<formatCurrency(annual)>>)
    ELSE Null

rrspWithin(annual, limit) ==
    IF RLe(annual, limit)
    THEN Message("Your annual contribution is within your RRSP limit",
                 <<formatCurrency(annual), formatCurrency(limit)>>)
    ELSE Null

rrspConfirmation(income, annual) ==
    IF RGt(annual, Zero) /\ RGt(income, Zero)
    THEN rrspWithin(annual, MathMin(RMul(income, Rat(18, 100)), Num(31560)))
    ELSE Null

fhsaConfirmation(annual, years) ==
    IF /\ RGt(annual, Zero) /\ RLe(annual, Num(8000))
       /\ RLe(RMul(annual, years), Num(40000))
    THEN Message("Your annual contribution is within the FHSA limits",
                 <<formatCurrency(annual)>>)
    ELSE Null

respConfirmation(annual, years) ==
    IF RGt(annual, Zero) /\ RLe(RMul(annual, years), Num(50000))
    THEN Message("Your annual contribution is within the RESP lifetime limit",
                 <<formatCurrency(annual)>>)
    ELSE Null

accountConfirmationBody(accountType_, tfsaAnnualContribution_, rrspAnnualIncome_, rrspAnnualContribution_, fhsaAnnualContribution_, respAnnualContribution_, lengthOfTime_) ==
    IF accountType_ = "TFSA"
    THEN tfsaConfirmation(OrZero(parseFloat(tfsaAnnualContribution_)))
    ELSE IF accountType_ = "RRSP"
    THEN rrspConfirmation(OrZero(parseFloat(rrspAnnualIncome_)),
                          OrZero(parseFloat(rrspAnnualContribution_)))
    ELSE IF accountType_ = "FHSA"
    THEN fhsaConfirmation(OrZero(parseFloat(fhsaAnnualContribution_)),
                          OrZero(parseFloat(lengthOfTime_)))
    ELSE IF accountType_ = "RESP"
    THEN respConfirmation(OrZero(parseFloat(respAnnualContribution_)),
                          OrZero(parseFloat(lengthOfTime_)))
    ELSE Null

-----------------------------------------------------------------------------
(* Home, variant 1 (green theme): the account warning *)

ACCOUNT_LIMITS ==
    [TFSA |-> [annualLimit |-> Some(Num(7000)), lifetimeLimit |-> Null],
     RRSP |-> [annualLimit |-> Some(Num(31560)), lifetimeLimit |-> Null],
     FHSA |-> [annualLimit |-> Some(Num(8000)), lifetimeLimit |-> Some(Num(40000))],
     RESP |-> [annualLimit |-> Null, lifetimeLimit |-> Some(Num(50000))],
     General |-> [annualLimit |-> Null, lifetimeLimit |-> Null]]

respWarning1(initial) ==
    IF RGt(initial, Num(50000))
    THEN Message("Your initial investment exceeds the RESP lifetime limit. Consider reducing",
                 <<formatCurrency(initial)>>)
    ELSE Null

fhsaWarning1(initial, monthly, annual) ==
    IF RGt(annual, Num(8000))
    THEN Message("Your monthly contributions exceed the FHSA annual limit",
                 <<formatCurrency(monthly), formatCurrency(annual),
                   formatCurrency(Num(MathFloor(Rat(8000, 12))))>>)
    ELSE IF RGt(initial, Num(40000))
    THEN Message("Your initial investment exceeds the FHSA lifetime limit. Consider reducing",
                 <<formatCurrency(initial)>>)
    ELSE Null

\* the last check, reached by TFSA and RRSP only
annualLimitWarning1(accountType_, monthly, annual, limits) ==
    IF limits.annualLimit # Null /\ RGt(annual, limits.annualLimit[1])
    THEN Message(IF accountType_ = "TFSA"
                 THEN "Your monthly contributions exceed the TFSA annual limit"
                 ELSE "Your monthly contributions exceed the RRSP annual limit",
                 <<formatCurrency(monthly), formatCurrency(annual),
                   formatCurrency(limits.annualLimit[1]),
                   formatCurrency(Num(MathFloor(RDiv(limits.annualLimit[1], Num(12)))))>>)
    ELSE Null

warning1(accountType_, initial, monthly) ==
    IF accountType_ = "" \/ accountType_ = "General" THEN Null
    ELSE IF accountType_ \notin DOMAIN ACCOUNT_LIMITS THEN Null
    ELSE IF accountType_ = "RESP" THEN respWarning1(initial)
    ELSE IF accountType_ = "FHSA"
    THEN fhsaWarning1(initial, monthly, RMul(monthly, Num(12)))
    ELSE annualLimitWarning1(accountType_, monthly, RMul(monthly, Num(12)),
                             ACCOUNT_LIMITS[accountType_])

accountWarningBody1(initialInvestment_, monthlyContribution_, accountType_) ==
    warning1(accountType_, OrZero(parseFloat(initialInvestment_)),
             OrZero(parseFloat(monthlyContribution_)))

-----------------------------------------------------------------------------
(* Bounds of the arithmetic.  TLC's integers are 32 bits wide; an input is   *)
(* explored only if every intermediate value of its projection fits.         *)

ArithCap == 1000000000

SatMul(a, b) ==
    IF a = 0 \/ b = 0 THEN 0
    ELSE IF a > ArithCap \div b THEN ArithCap + 1
    ELSE a * b

RECURSIVE SatPow(_, _)
SatPow(a, k) ==
    IF k = 0 THEN 1
    ELSE IF k > 31 THEN ArithCap + 1
    ELSE SatMul(a, SatPow(a, k - 1))

\* the projection of (P, M, R, T, F) has a rational value that fits
Fits(P, PMT, base, e, K) ==
    /\ e.num >= 0
    /\ IsInteger(e) \/ (e.den = 2 /\ HasRoot(base))
    /\ SatMul(SatPow(base.num, e.num), SatMul(Abs(PMT.num), K.num) + Abs(P.num) + 1)
           <= ArithCap

FitsPerYear(P, M, R, T, F, n) ==
    Fits(P, getContributionPerPeriod(M, F), RAdd(One, RDiv(R, Num(100 * n))),
         RMul(Num(n), T), RDiv(Num(100 * n), R))

Representable(P, M, R, T, F) ==
    \/ R = Zero
    \/ /\ RGt(R, Zero)
       /\ FitsPerYear(P, M, R, T, F, getCompoundFrequencyPerYear(F))

-----------------------------------------------------------------------------
(* The mounted page: state hooks, dependency lists and one render per edit   *)

AccountType == {"TFSA", "RRSP", "FHSA", "RESP", "General", ""}

\* parseFloat(monthlyContribution) || 0, the `monthly` of variant 1
monthlyOf(monthlyContribution_) == OrZero(parseFloat(monthlyContribution_))

effectiveMonthlyDeps ==
    <<accountType, tfsaAnnualContribution, rrspAnnualContribution,
      fhsaAnnualContribution, respAnnualContribution, monthlyContribution>>

\* the dependency list shared by results, chartData and comparisonScenarios
projectionDeps ==
    IF variant = 2
    THEN <<initialInvestment, effectiveMonthly, lengthOfTime, annualReturn,
           compoundFrequency>>
    ELSE <<initialInvestment, monthlyContribution, lengthOfTime, annualReturn,
           compoundFrequency>>

\* the dependency lists without the horizon
accountWarningDepsNoHorizon ==
    IF variant = 2
    THEN <<initialInvestment, accountType, tfsaAnnualContribution, rrspAnnualIncome,
           rrspAnnualContribution, fhsaAnnualContribution, respAnnualContribution>>
    ELSE <<initialInvestment, monthlyContribution, accountType>>

accountWarningDeps ==
    IF variant = 2
    THEN <<initialInvestment, accountType, tfsaAnnualContribution, rrspAnnualIncome,
           rrspAnnualContribution, fhsaAnnualContribution, respAnnualContribution,
           lengthOfTime>>
    ELSE <<initialInvestment, monthlyContribution, accountType>>

\* the dependency list without the RRSP income
accountConfirmationDepsNoIncome ==
    <<accountType, tfsaAnnualContribution, rrspAnnualContribution,
      fhsaAnnualContribution, respAnnualContribution, lengthOfTime>>

\* the dependency list without the account type
accountConfirmationDepsNoType ==
    <<tfsaAnnualContribution, rrspAnnualIncome, rrspAnnualContribution,
      fhsaAnnualContribution, respAnnualContribution, lengthOfTime>>

accountConfirmationDeps ==
    <<accountType, tfsaAnnualContribution, rrspAnnualIncome, rrspAnnualContribution,
      fhsaAnnualContribution, respAnnualContribution, lengthOfTime>>

\* the value each hook computes when React runs its body in the current state
effectiveMonthlyNow ==
    effectiveMonthlyBody(accountType, tfsaAnnualContribution, rrspAnnualContribution,
                         fhsaAnnualContribution, respAnnualContribution,
                         monthlyContribution)

monthlyNow ==
    IF variant = 2 THEN effectiveMonthly ELSE monthlyOf(monthlyContribution)

resultsNow ==
    resultsBody(initialInvestment, monthlyNow, lengthOfTime, annualReturn,
                compoundFrequency)

chartDataNow ==
    chartDataBody(initialInvestment, monthlyNow, lengthOfTime, annualReturn,
                  compoundFrequency)

comparisonScenariosNow ==
    comparisonScenariosBody(initialInvestment, monthlyNow, lengthOfTime, annualReturn,
                            compoundFrequency)

accountWarningNow ==
    IF variant = 2
    THEN accountWarningBody(initialInvestment, accountType, tfsaAnnualContribution,
                            rrspAnnualIncome, rrspAnnualContribution,
                            fhsaAnnualContribution, respAnnualContribution,
                            lengthOfTime)
    ELSE accountWarningBody1(initialInvestment, monthlyContribution, accountType)

accountConfirmationNow ==
    accountConfirmationBody(accountType, tfsaAnnualContribution, rrspAnnualIncome,
                            rrspAnnualContribution, fhsaAnnualContribution,
                            respAnnualContribution, lengthOfTime)

\* the fields admit an exact projection
ValidFits(initial, monthly, years, returnRate, frequency) ==
    isValidInputs(initial, monthly, years, returnRate)
        => Representable(initial, monthly, returnRate, years, frequency)

InBounds(initialInvestment_, monthly, lengthOfTime_, annualReturn_, compoundFrequency_) ==
    ValidFits(OrZero(parseFloat(initialInvestment_)), monthly,
              OrZero(parseFloat(lengthOfTime_)), OrZero(parseFloat(annualReturn_)),
              compoundFrequency_)

\* One render after a state change: useMemo re-runs a body only if one of
\* its dependencies changed, and keeps the cached value otherwise.  The
\* bodies run in hook order, so effectiveMonthly is settled before the
\* hooks that depend on it.
Render ==
    \E em \in {IF variant = 2 /\ effectiveMonthlyDeps' # effectiveMonthlyDeps
               THEN effectiveMonthlyBody(accountType', tfsaAnnualContribution',
                                         rrspAnnualContribution',
                                         fhsaAnnualContribution',
                                         respAnnualContribution',
                                         monthlyContribution')
               ELSE effectiveMonthly} :
    \E monthly \in {IF variant = 2 THEN em ELSE monthlyOf(monthlyContribution')} :
        /\ effectiveMonthly' = em
        /\ InBounds(initialInvestment', monthly, lengthOfTime', annualReturn',
                    compoundFrequency')
        /\ results' =
              IF projectionDeps' # projectionDeps
              THEN resultsBody(initialInvestment', monthly, lengthOfTime',
                               annualReturn', compoundFrequency')
              ELSE results
        /\ chartData' =
              IF projectionDeps' # projectionDeps
              THEN chartDataBody(initialInvestment', monthly, lengthOfTime',
                                 annualReturn', compoundFrequency')
              ELSE chartData
        /\ comparisonScenarios' =
              IF projectionDeps' # projectionDeps
              THEN comparisonScenariosBody(initialInvestment', monthly, lengthOfTime',
                                           annualReturn', compoundFrequency')
              ELSE comparisonScenarios
        /\ accountWarning' =
              IF accountWarningDeps' # accountWarningDeps
              THEN IF variant = 2
                   THEN accountWarningBody(initialInvestment', accountType',
                                           tfsaAnnualContribution', rrspAnnualIncome',
                                           rrspAnnualContribution',
                                           fhsaAnnualContribution',
                                           respAnnualContribution', lengthOfTime')
                   ELSE accountWarningBody1(initialInvestment', monthlyContribution',
                                            accountType')
              ELSE accountWarning
        /\ accountConfirmation' =
              IF variant = 2 /\ accountConfirmationDeps' # accountConfirmationDeps
              THEN accountConfirmationBody(accountType', tfsaAnnualContribution',
                                           rrspAnnualIncome', rrspAnnualContribution',
                                           fhsaAnnualContribution',
                                           respAnnualContribution', lengthOfTime')
              ELSE accountConfirmation

NoCall == [P |-> Zero, M |-> Zero, R |-> Zero, T |-> Zero, F |-> "Monthly"]
NoReturn == [valid |-> Null, ci |-> Null, yd |-> Null, n |-> Null, PMT |-> Null]

\* the page `v` right after its first render: every field at its useState
\* default, every useMemo body run once
Mount(v) ==
    /\ variant = v
    /\ initialInvestment = ""
    /\ monthlyContribution = ""
    /\ lengthOfTime = ""
    /\ annualReturn = ""
    /\ compoundFrequency = "Monthly"
    /\ accountType = ""
    /\ tfsaAnnualContribution = ""
    /\ tfsaContributionYears = ""
    /\ rrspAnnualIncome = ""
    /\ rrspAnnualContribution = ""
    /\ fhsaAnnualContribution = ""
    /\ respAnnualContribution = ""
    /\ effectiveMonthly = IF v = 2 THEN effectiveMonthlyNow ELSE Zero
    /\ results = resultsNow
    /\ chartData = chartDataNow
    /\ comparisonScenarios = comparisonScenariosNow
    /\ accountWarning = accountWarningNow
    /\ accountConfirmation = IF v = 2 THEN accountConfirmationNow ELSE Null

Rerender == variant' = variant /\ Render /\ UNCHANGED callVars

setInitialInvestment(v) ==
    /\ initialInvestment' = v
    /\ UNCHANGED <<monthlyContribution, lengthOfTime, annualReturn, compoundFrequency,
                   accountType, tfsaAnnualContribution, tfsaContributionYears,
                   rrspAnnualIncome, rrspAnnualContribution, fhsaAnnualContribution,
                   respAnnualContribution>>
    /\ Rerender

\* variant 2 renders the monthly field only for the non-registered categories
setMonthlyContribution(v) ==
    /\ variant = 1 \/ accountType \notin {"TFSA", "RRSP", "FHSA", "RESP"}
    /\ monthlyContribution' = v
    /\ UNCHANGED <<initialInvestment, lengthOfTime, annualReturn, compoundFrequency,
                   accountType, tfsaAnnualContribution, tfsaContributionYears,
                   rrspAnnualIncome, rrspAnnualContribution, fhsaAnnualContribution,
                   respAnnualContribution>>
    /\ Rerender

setLengthOfTime(v) ==
    /\ lengthOfTime' = v
    /\ UNCHANGED <<initialInvestment, monthlyContribution, annualReturn,
                   compoundFrequency, accountType, tfsaAnnualContribution,
                   tfsaContributionYears, rrspAnnualIncome, rrspAnnualContribution,
                   fhsaAnnualContribution, respAnnualContribution>>
    /\ Rerender

\* the return-rate handler also clearing the horizon
setAnnualReturnClearingHorizon(v) ==
    /\ annualReturn' = v
    /\ lengthOfTime' = ""
    /\ UNCHANGED <<initialInvestment, monthlyContribution,
                   compoundFrequency, accountType, tfsaAnnualContribution,
                   tfsaContributionYears, rrspAnnualIncome, rrspAnnualContribution,
                   fhsaAnnualContribution, respAnnualContribution>>
    /\ Rerender

setAnnualReturn(v) ==
    /\ annualReturn' = v
    /\ UNCHANGED <<initialInvestment, monthlyContribution, lengthOfTime,
                   compoundFrequency, accountType, tfsaAnnualContribution,
                   tfsaContributionYears, rrspAnnualIncome, rrspAnnualContribution,
                   fhsaAnnualContribution, respAnnualContribution>>
    /\ Rerender

setCompoundFrequency(v) ==
    /\ compoundFrequency' = v
    /\ UNCHANGED <<initialInvestment, monthlyContribution, lengthOfTime, annualReturn,
                   accountType, tfsaAnnualContribution, tfsaContributionYears,
                   rrspAnnualIncome, rrspAnnualContribution, fhsaAnnualContribution,
                   respAnnualContribution>>
    /\ Rerender

setAccountType(v) ==
    /\ accountType' = v
    /\ UNCHANGED <<initialInvestment, monthlyContribution, lengthOfTime, annualReturn,
                   compoundFrequency, tfsaAnnualContribution, tfsaContributionYears,
                   rrspAnnualIncome, rrspAnnualContribution, fhsaAnnualContribution,
                   respAnnualContribution>>
    /\ Rerender

setTfsaAnnualContribution(v) ==
    /\ variant = 2 /\ accountType = "TFSA"
    /\ tfsaAnnualContribution' = v
    /\ UNCHANGED <<initialInvestment, monthlyContribution, lengthOfTime, annualReturn,
                   compoundFrequency, accountType, tfsaContributionYears,
                   rrspAnnualIncome, rrspAnnualContribution, fhsaAnnualContribution,
                   respAnnualContribution>>
    /\ Rerender

setTfsaContributionYears(v) ==
    /\ variant = 2 /\ accountType = "TFSA"
    /\ tfsaContributionYears' = v
    /\ UNCHANGED <<initialInvestment, monthlyContribution, lengthOfTime, annualReturn,
                   compoundFrequency, accountType, tfsaAnnualContribution,
                   rrspAnnualIncome, rrspAnnualContribution, fhsaAnnualContribution,
                   respAnnualContribution>>
    /\ Rerender

setRrspAnnualIncome(v) ==
    /\ variant = 2 /\ accountType = "RRSP"
    /\ rrspAnnualIncome' = v
    /\ UNCHANGED <<initialInvestment, monthlyContribution, lengthOfTime, annualReturn,
                   compoundFrequency, accountType, tfsaAnnualContribution,
                   tfsaContributionYears, rrspAnnualContribution,
                   fhsaAnnualContribution, respAnnualContribution>>
    /\ Rerender

setRrspAnnualContribution(v) ==
    /\ variant = 2 /\ accountType = "RRSP"
    /\ rrspAnnualContribution' = v
    /\ UNCHANGED <<initialInvestment, monthlyContribution, lengthOfTime, annualReturn,
                   compoundFrequency, accountType, tfsaAnnualContribution,
                   tfsaContributionYears, rrspAnnualIncome, fhsaAnnualContribution,
                   respAnnualContribution>>
    /\ Rerender

setFhsaAnnualContribution(v) ==
    /\ variant = 2 /\ accountType = "FHSA"
    /\ fhsaAnnualContribution' = v
    /\ UNCHANGED <<initialInvestment, monthlyContribution, lengthOfTime, annualReturn,
                   compoundFrequency, accountType, tfsaAnnualContribution,
                   tfsaContributionYears, rrspAnnualIncome, rrspAnnualContribution,
                   respAnnualContribution>>
    /\ Rerender

setRespAnnualContribution(v) ==
    /\ variant = 2 /\ accountType = "RESP"
    /\ respAnnualContribution' = v
    /\ UNCHANGED <<initialInvestment, monthlyContribution, lengthOfTime, annualReturn,
                   compoundFrequency, accountType, tfsaAnnualContribution,
                   tfsaContributionYears, rrspAnnualIncome, rrspAnnualContribution,
                   fhsaAnnualContribution>>
    /\ Rerender

-----------------------------------------------------------------------------
(* Spec: a session on either page that exercises the validation gate, the    *)
(* projection and the comparison scenarios.                                  *)

InitialTexts == {"", "-1", "1000"}
MonthlyTexts == {"", "-500", "500"}
YearsTexts == {"", "0.5", "1", "5", "10", "100", "101"}
RateTexts == {"", "-1", "100", "101"}
AccountChoices == {"", "General", "RESP"}
RespTexts == {"", "2500"}

Init ==
    /\ \E v \in {1, 2} : Mount(v)
    /\ args = NoCall
    /\ ret = NoReturn

Next ==
    \/ \E v \in InitialTexts : setInitialInvestment(v)
    \/ \E v \in MonthlyTexts : setMonthlyContribution(v)
    \/ \E v \in YearsTexts : setLengthOfTime(v)
    \/ \E v \in RateTexts : setAnnualReturn(v)
    \/ \E v \in CompoundFrequency : setCompoundFrequency(v)
    \/ \E v \in AccountChoices : setAccountType(v)
    \/ \E v \in RespTexts : setRespAnnualContribution(v)

Spec == Init /\ [][Next]_vars

-----------------------------------------------------------------------------
(* The parsed field values of the current state *)

initialNow == OrZero(parseFloat(initialInvestment))
yearsNow == OrZero(parseFloat(lengthOfTime))
returnRateNow == OrZero(parseFloat(annualReturn))
\* the monthly-equivalent contribution the mounted page feeds to the engine
contributionNow ==
    IF variant = 2 THEN effectiveMonthlyNow ELSE monthlyOf(monthlyContribution)

ValidNow == isValidInputs(initialNow, contributionNow, yearsNow, returnRateNow)

LastPoint(points) == points[Len(points)]

-----------------------------------------------------------------------------
(* Claims about the gate, the projection and the comparison scenarios (Spec) *)

\* C1 (as claimed): whenever the gate accepts the fields, the last point of
\* the trajectory carries the balance and the contributed total of the
\* direct projection over the full horizon.
C1_LastPointIsProjection ==
    (results # Null /\ chartData # Null) =>
        /\ LastPoint(chartData[1]).totalBalance = results[1].totalBalance
        /\ LastPoint(chartData[1]).totalContributed = results[1].totalContributed

\* C2 (as claimed): the three outputs are produced only if (principal > 0 or
\* contribution > 0), the horizon is a whole number in [1,100] and the rate
\* is in [0,100]; otherwise all three are null.
C2_OutputsOnlyForSpecifiedInputs ==
    LET specified ==
            /\ RGt(initialNow, Zero) \/ RGt(contributionNow, Zero)
            /\ IsInteger(yearsNow)
            /\ RGe(yearsNow, One) /\ RLe(yearsNow, Num(100))
            /\ RGe(returnRateNow, Zero) /\ RLe(returnRateNow, Num(100))
    IN  IF specified
        THEN results # Null /\ chartData # Null /\ comparisonScenarios # Null
        ELSE results = Null /\ chartData = Null /\ comparisonScenarios = Null

\* C3 (as claimed): a negative principal, contribution, rate or horizon is
\* rejected by the gate, so the engine is never run on it.
C3_NegativeInputsRejected ==
    ( \/ RLt(initialNow, Zero) \/ RLt(contributionNow, Zero)
      \/ RLt(returnRateNow, Zero) \/ RLt(yearsNow, Zero) )
        => results = Null /\ chartData = Null /\ comparisonScenarios = Null

\* C4 (as claimed): with R > 0 and (M > 0 or P > 0) the scenario balances are
\* ordered Start Now >= Wait 5 Years >= Wait 10 Years and every missedAmount
\* is >= 0.
C4_ScenariosOrdered ==
    ( /\ comparisonScenarios # Null
      /\ RGt(returnRateNow, Zero)
      /\ RGt(contributionNow, Zero) \/ RGt(initialNow, Zero) ) =>
        LET s == comparisonScenarios[1] IN
        /\ \A i \in 1..(Len(s) - 1) : RGe(s[i].totalBalance, s[i + 1].totalBalance)
        /\ \A i \in 1..Len(s) : RGe(s[i].missedAmount, Zero)

\* C5: for valid fields the list starts with "Start Now" (horizon T,
\* highlighted, nothing missed); "Wait 5 Years" is there iff T >= 5 and
\* "Wait 10 Years" iff T >= 10; each is the projection over T-5 resp. T-10
\* with the other arguments unchanged, and its missedAmount is the Start Now
\* balance minus its own.
C5_ScenarioList ==
    LET balance(t) ==
            calculateCompoundInterest(initialNow, contributionNow, returnRateNow,
                                      t, compoundFrequency).totalBalance
        waiting(label, wait) ==
            [label |-> label, years |-> RSub(yearsNow, Num(wait)),
             totalBalance |-> balance(RSub(yearsNow, Num(wait))),
             highlight |-> FALSE,
             missedAmount |-> RSub(balance(yearsNow), balance(RSub(yearsNow, Num(wait))))]
        s == comparisonScenarios[1]
        labels == {s[i].label : i \in 1..Len(s)}
    IN  /\ ValidNow <=> comparisonScenarios # Null
        /\ comparisonScenarios # Null =>
            /\ s[1] = [label |-> "Start Now", years |-> yearsNow,
                       totalBalance |-> balance(yearsNow), highlight |-> TRUE,
                       missedAmount |-> Zero]
            /\ "Wait 5 Years" \in labels <=> RGe(yearsNow, Num(5))
            /\ "Wait 10 Years" \in labels <=> RGe(yearsNow, Num(10))
            /\ Len(s) = Cardinality(labels)
            /\ \A i \in 2..Len(s) :
                  \/ s[i] = waiting("Wait 5 Years", 5)
                  \/ s[i] = waiting("Wait 10 Years", 10)

\* C5 witness: all three scenarios are on the page
C5_Witness ==
    /\ comparisonScenarios # Null
    /\ Len(comparisonScenarios[1]) = 3
    /\ RGt(comparisonScenarios[1][3].missedAmount, Zero)

\* the annual contribution of the selected RESP: the RESP field of variant 2,
\* twelve times the monthly field of variant 1
respAnnualNow ==
    IF variant = 2 THEN OrZero(parseFloat(respAnnualContribution))
    ELSE RMul(monthlyOf(monthlyContribution), Num(12))

\* C12 (as claimed): with RESP selected the calculator is fed
\* (annual + grant) / 12 a month, grant = min(annual * 0.20, 500); for
\* annual >= 0 the grant is at most 500 and the yearly inflow at most
\* annual * 1.20.
C12_RespGrant ==
    accountType = "RESP" =>
        /\ monthlyNow =
              RDiv(RAdd(respAnnualNow,
                        MathMin(RMul(respAnnualNow, Rat(20, 100)), Num(500))),
                   Num(12))
        /\ results # Null =>
              results[1].totalContributed =
                  RAdd(initialNow, RMul(RMul(monthlyNow, Num(12)), yearsNow))
        /\ RGe(respAnnualNow, Zero) =>
              /\ RLe(RSub(RMul(monthlyNow, Num(12)), respAnnualNow), Num(500))
              /\ RLe(RMul(monthlyNow, Num(12)), RMul(respAnnualNow, Rat(120, 100)))

\* C20: over a horizon of 0 the projection is [P, P, 0] for every P, M,
\* frequency and R in [0,100]; so "Wait 5 Years" at horizon 5 and "Wait 10
\* Years" at horizon 10 show the initial investment, and the trajectory's
\* year-0 point has balance P.
C20_DegenerateHorizon ==
    /\ (RGe(returnRateNow, Zero) /\ RLe(returnRateNow, Num(100))) =>
          calculateCompoundInterest(initialNow, contributionNow, returnRateNow, Zero,
                                    compoundFrequency)
              = [totalBalance |-> initialNow, totalContributed |-> initialNow,
                 totalInterest |-> Zero]
    /\ (comparisonScenarios # Null /\ yearsNow = Num(5)) =>
          /\ comparisonScenarios[1][2].label = "Wait 5 Years"
          /\ comparisonScenarios[1][2].years = Zero
          /\ comparisonScenarios[1][2].totalBalance = initialNow
    /\ (comparisonScenarios # Null /\ yearsNow = Num(10)) =>
          /\ comparisonScenarios[1][3].label = "Wait 10 Years"
          /\ comparisonScenarios[1][3].years = Zero
          /\ comparisonScenarios[1][3].totalBalance = initialNow
    /\ chartData # Null =>
          /\ chartData[1][1].year = 0
          /\ chartData[1][1].totalBalance = initialNow

\* C20 witness: at a horizon of 10 and a rate of 100 the third scenario shows
\* the initial 1000 although contributions of 500 a month are planned
C20_Witness ==
    /\ comparisonScenarios # Null /\ chartData # Null
    /\ yearsNow = Num(10) /\ returnRateNow = Num(100)
    /\ initialNow = Num(1000) /\ contributionNow = Num(500)
    /\ comparisonScenarios[1][3].totalBalance = Num(1000)
    /\ RGt(comparisonScenarios[1][1].totalBalance, Num(1000))

-----------------------------------------------------------------------------
(* SpecCalc: the engine's functions called directly on bounded arguments     *)

MaxYears == 6

Principals == {Zero, Num(1000)}
Contributions == {Num(-100), Zero, Num(100), Rat(250, 3)}
Rates == {Zero, Num(50), Rat(225, 4), Num(100)}
Horizons == {Rat(k, 2) : k \in 0..(2 * MaxYears)}

ArgSpace ==
    {a \in [P : Principals, M : Contributions, R : Rates, T : Horizons,
            F : CompoundFrequency] : Representable(a.P, a.M, a.R, a.T, a.F)}

InitCalc ==
    /\ Mount(2)
    /\ args \in ArgSpace
    /\ ret = NoReturn

callIsValidInputs ==
    /\ ret' = [ret EXCEPT !.valid = Some(isValidInputs(args.P, args.M, args.T, args.R))]
    /\ UNCHANGED <<variant, fieldVars, memoVars, args>>

callCalculateCompoundInterest ==
    /\ ret' = [ret EXCEPT
                 !.ci = Some(calculateCompoundInterest(args.P, args.M, args.R,
                                                       args.T, args.F))]
    /\ UNCHANGED <<variant, fieldVars, memoVars, args>>

callCalculateYearlyData ==
    /\ ret' = [ret EXCEPT
                 !.yd = Some(calculateYearlyData(args.P, args.M, args.R, args.T,
                                                 args.F))]
    /\ UNCHANGED <<variant, fieldVars, memoVars, args>>

NextCalc ==
    \/ callIsValidInputs
    \/ callCalculateCompoundInterest
    \/ callCalculateYearlyData

SpecCalc == InitCalc /\ [][NextCalc]_vars

\* C6: at a zero rate, for every compounding frequency, the projection's
\* balance is P + M*12*T, equal to the contributed total, with no interest.
C6_ZeroRate ==
    (ret.ci # Null /\ args.R = Zero) =>
        /\ ret.ci[1].totalBalance =
              RAdd(args.P, RMul(RMul(args.M, Num(12)), args.T))
        /\ ret.ci[1].totalBalance = ret.ci[1].totalContributed
        /\ ret.ci[1].totalInterest = Zero

\* C6 witness: a zero-rate projection with daily compounding, a fractional
\* per-period contribution and a positive horizon
C6_Witness ==
    /\ ret.ci # Null
    /\ args.R = Zero /\ args.F = "Daily"
    /\ args.M = Rat(250, 3) /\ args.T = Num(MaxYears)

\* C7: for P >= 0, M >= 0 and R >= 0 the projected balance does not decrease
\* with the horizon, and the trajectory's balances do not decrease with the
\* year index.
C7_MonotoneInHorizon ==
    (RGe(args.P, Zero) /\ RGe(args.M, Zero) /\ RGe(args.R, Zero)) =>
        /\ ret.ci # Null =>
              \A T1 \in Horizons :
                  (RLe(T1, args.T) /\ Representable(args.P, args.M, args.R, T1, args.F))
                      => RLe(calculateCompoundInterest(args.P, args.M, args.R, T1,
                                                       args.F).totalBalance,
                             ret.ci[1].totalBalance)
        /\ ret.yd # Null =>
              \A i \in 1..(Len(ret.yd[1]) - 1) :
                  RLe(ret.yd[1][i].totalBalance, ret.yd[1][i + 1].totalBalance)

\* C7 witness: a growing balance over several years at a positive rate
C7_Witness ==
    /\ ret.ci # Null /\ ret.yd # Null
    /\ args.R = Num(50) /\ args.T = Num(4) /\ args.M = Num(100) /\ args.P = Num(1000)
    /\ RLt(ret.yd[1][1].totalBalance, ret.yd[1][5].totalBalance)

\* C19: the projection's totalContributed is P + M*12*T whatever the
\* compounding frequency, and totalInterest is totalBalance minus it.
C19_ContributedIgnoresFrequency ==
    ret.ci # Null =>
        /\ ret.ci[1].totalContributed =
              RAdd(args.P, RMul(RMul(args.M, Num(12)), args.T))
        /\ ret.ci[1].totalInterest =
              RSub(ret.ci[1].totalBalance, ret.ci[1].totalContributed)
        /\ \A f \in CompoundFrequency :
              Representable(args.P, args.M, args.R, args.T, f) =>
                  calculateCompoundInterest(args.P, args.M, args.R, args.T,
                                            f).totalContributed
                      = ret.ci[1].totalContributed

\* C19 witness: a projection that earned interest on 1000 plus 100 a month
\* over four years
C19_Witness ==
    /\ ret.ci # Null
    /\ args.P = Num(1000) /\ args.M = Num(100) /\ args.R = Num(50)
    /\ args.T = Num(4) /\ args.F = "Annually"
    /\ ret.ci[1].totalContributed = Num(5800)
    /\ RGt(ret.ci[1].totalInterest, Zero)

-----------------------------------------------------------------------------
(* SpecResolver: the two frequency functions called directly, also on a      *)
(* value outside the CompoundFrequency type (the type is erased at run time) *)

ResolverFrequencies == CompoundFrequency \cup {"Weekly"}
ResolverContributions == {Num(-100), Zero, Num(100), Rat(250, 3), Num(365), Num(1000)}

InitResolver ==
    /\ Mount(2)
    /\ args \in [P : {Zero}, M : ResolverContributions, R : {Zero}, T : {Zero},
                 F : ResolverFrequencies]
    /\ ret = NoReturn

callGetCompoundFrequencyPerYear ==
    /\ ret' = [ret EXCEPT !.n = Some(getCompoundFrequencyPerYear(args.F))]
    /\ UNCHANGED <<variant, fieldVars, memoVars, args>>

callGetContributionPerPeriod ==
    /\ ret' = [ret EXCEPT !.PMT = Some(getContributionPerPeriod(args.M, args.F))]
    /\ UNCHANGED <<variant, fieldVars, memoVars, args>>

NextResolver ==
    \/ callGetCompoundFrequencyPerYear
    \/ callGetContributionPerPeriod

SpecResolver == InitResolver /\ [][NextResolver]_vars

\* C18: the periods per year are 1, 2, 4, 12, 365 and the contribution per
\* period is the monthly amount times 12, 6, 3, 1 and divided by 365/12, for
\* Annually, Semi-Annually, Quarterly, Monthly, Daily; any other frequency
\* value counts as Monthly.
C18_FrequencyTable ==
    /\ ret.n # Null =>
          ret.n[1] = CASE args.F = "Annually" -> 1
                       [] args.F = "Semi-Annually" -> 2
                       [] args.F = "Quarterly" -> 4
                       [] args.F = "Daily" -> 365
                       [] OTHER -> 12
    /\ ret.PMT # Null =>
          ret.PMT[1] = CASE args.F = "Annually" -> RMul(Num(12), args.M)
                         [] args.F = "Semi-Annually" -> RMul(Num(6), args.M)
                         [] args.F = "Quarterly" -> RMul(Num(3), args.M)
                         [] args.F = "Daily" -> RMul(Rat(12, 365), args.M)
                         [] OTHER -> args.M

\* C18 witness: both functions have answered for an unrecognised frequency
C18_Witness ==
    /\ args.F = "Weekly" /\ args.M = Num(100)
    /\ ret.n = Some(12) /\ ret.PMT = Some(Num(100))

-----------------------------------------------------------------------------
(* SpecAdvisory: a session on the account page (variant 2) that exercises    *)
(* the account rules                                                         *)

AdvisoryInitialTexts == {"", "40000", "50001"}
AdvisoryYearsTexts == {"", "-6", "5", "10"}
TfsaTexts == {"", "7001"}
RrspIncomeTexts == {"", "100000", "200000"}
RrspContributionTexts == {"", "18000", "31561"}
FhsaTexts == {"", "-8000", "8000", "8001"}
AdvisoryRespTexts == {"", "2500", "6000"}

InitAdvisory ==
    /\ Mount(2)
    /\ args = NoCall
    /\ ret = NoReturn

NextAdvisory ==
    \/ \E v \in AdvisoryInitialTexts : setInitialInvestment(v)
    \/ \E v \in AdvisoryYearsTexts : setLengthOfTime(v)
    \/ \E v \in AccountType : setAccountType(v)
    \/ \E v \in TfsaTexts : setTfsaAnnualContribution(v)
    \/ \E v \in RrspIncomeTexts : setRrspAnnualIncome(v)
    \/ \E v \in RrspContributionTexts : setRrspAnnualContribution(v)
    \/ \E v \in FhsaTexts : setFhsaAnnualContribution(v)
    \/ \E v \in AdvisoryRespTexts : setRespAnnualContribution(v)

SpecAdvisory == InitAdvisory /\ [][NextAdvisory]_vars

fhsaAnnualNow == OrZero(parseFloat(fhsaAnnualContribution))

WarningTemplate == IF accountWarning = Null THEN "" ELSE accountWarning[1].template

\* C8 (as claimed): a warning and a confirmation are never both present for
\* the same field state.
C8_WarningXorConfirmation ==
    ~(accountWarning # Null /\ accountConfirmation # Null)

\* C9 (as claimed): for FHSA the checks annual > 8000, initial > 40000,
\* annual * years > 40000 are tried in that order, the first match gives the
\* warning, and there is a warning exactly when one of the three holds.
C9_FhsaChecksAsClaimed ==
    accountType = "FHSA" =>
        LET c1 == RGt(fhsaAnnualNow, Num(8000))
            c2 == RGt(initialNow, Num(40000))
            c3 == RGt(RMul(fhsaAnnualNow, yearsNow), Num(40000))
        IN  /\ (accountWarning # Null) <=> (c1 \/ c2 \/ c3)
            /\ c1 => WarningTemplate =
                        "Your annual contribution exceeds the FHSA annual limit"
            /\ (~c1 /\ c2) => WarningTemplate =
                        "Your initial investment exceeds the FHSA lifetime limit"
            /\ (~c1 /\ ~c2 /\ c3) => WarningTemplate =
                        "You'll hit the $40,000 FHSA lifetime limit"

\* C9 (amended): as above, with the third check being annual > 0 and
\* annual * years > 40000.
C9_FhsaChecks ==
    accountType = "FHSA" =>
        LET c1 == RGt(fhsaAnnualNow, Num(8000))
            c2 == RGt(initialNow, Num(40000))
            c3 == /\ RGt(fhsaAnnualNow, Zero)
                  /\ RGt(RMul(fhsaAnnualNow, yearsNow), Num(40000))
        IN  /\ (accountWarning # Null) <=> (c1 \/ c2 \/ c3)
            /\ c1 => WarningTemplate =
                        "Your annual contribution exceeds the FHSA annual limit"
            /\ (~c1 /\ c2) => WarningTemplate =
                        "Your initial investment exceeds the FHSA lifetime limit"
            /\ (~c1 /\ ~c2 /\ c3) => WarningTemplate =
                        "You'll hit the $40,000 FHSA lifetime limit"

\* C9 witness: the first and the second check both match and the first one
\* is the one reported
C9_Witness ==
    /\ accountType = "FHSA"
    /\ RGt(fhsaAnnualNow, Num(8000)) /\ RGt(initialNow, Num(40000))
    /\ WarningTemplate = "Your annual contribution exceeds the FHSA annual limit"

\* C14: with the category General or unselected there is neither a warning
\* nor a confirmation, whatever the other fields hold.
C14_NoAdvisoryWithoutAccount ==
    accountType \in {"General", ""} =>
        accountWarning = Null /\ accountConfirmation = Null

\* C14 witness: General is selected while the FHSA field and the initial
\* investment still hold values that warn under FHSA
C14_Witness ==
    /\ accountType = "General"
    /\ fhsaAnnualContribution = "8001" /\ initialInvestment = "50001"
    /\ rrspAnnualContribution = "18000" /\ rrspAnnualIncome = "100000"
    /\ accountWarning = Null /\ accountConfirmation = Null

\* C15: with a zero (or empty) initial investment and a zero effective
\* contribution there is no projection, no trajectory, no scenario list, no
\* warning and no confirmation, for every horizon, rate and category.
C15_NothingFromNothing ==
    (initialNow = Zero /\ contributionNow = Zero) =>
        /\ results = Null /\ chartData = Null /\ comparisonScenarios = Null
        /\ accountWarning = Null /\ accountConfirmation = Null

\* C15 witness: only the amounts keep the gate shut (the horizon and the rate
\* are acceptable) and an income is on file for the selected RRSP
C15_Witness ==
    /\ initialNow = Zero /\ contributionNow = Zero
    /\ lengthOfTime = "5" /\ RGe(returnRateNow, Zero)
    /\ accountType = "RRSP" /\ rrspAnnualIncome = "100000"
    /\ results = Null /\ accountWarning = Null /\ accountConfirmation = Null

\* C17: after any sequence of edits every output is the value its hook
\* computes from the current fields; no memoised value is stale.
C17_OutputsFollowFields ==
    /\ variant = 2 => effectiveMonthly = effectiveMonthlyNow
    /\ results = resultsBody(initialInvestment, contributionNow, lengthOfTime,
                             annualReturn, compoundFrequency)
    /\ chartData = chartDataBody(initialInvestment, contributionNow, lengthOfTime,
                                 annualReturn, compoundFrequency)
    /\ comparisonScenarios =
          comparisonScenariosBody(initialInvestment, contributionNow, lengthOfTime,
                                  annualReturn, compoundFrequency)
    /\ accountWarning = accountWarningNow
    /\ accountConfirmation = IF variant = 2 THEN accountConfirmationNow ELSE Null

\* C17 witness: RESP is selected after RRSP and FHSA had been filled in, and
\* the projection and the warning on the page are those of the RESP fields
C17_Witness ==
    /\ accountType = "RESP" /\ respAnnualContribution = "6000"
    /\ lengthOfTime = "10" /\ initialInvestment = "40000"
    /\ rrspAnnualContribution = "31561" /\ fhsaAnnualContribution = "8001"
    /\ results # Null
    /\ WarningTemplate = "Your lifetime RESP contributions will exceed the $50,000 limit"

\* C10 (as claimed): for RRSP the advisory is evaluated only when income
\* and contribution are both positive; then there is a warning exactly when
\* the contribution exceeds min(income * 0.18, 31560) and a confirmation
\* exactly when it does not; otherwise there is neither.
C10_RrspRule ==
    accountType = "RRSP" =>
        LET income == OrZero(parseFloat(rrspAnnualIncome))
            annual == IF variant = 2
                      THEN OrZero(parseFloat(rrspAnnualContribution))
                      ELSE RMul(OrZero(parseFloat(monthlyContribution)), Num(12))
            cap == MathMin(RMul(income, Rat(18, 100)), Num(31560))
        IN  IF RGt(income, Zero) /\ RGt(annual, Zero)
            THEN /\ (accountWarning # Null) <=> RGt(annual, cap)
                 /\ (accountConfirmation # Null) <=> RLe(annual, cap)
            ELSE accountWarning = Null /\ accountConfirmation = Null

-----------------------------------------------------------------------------
(* SpecGreen: a session on the first page variant (green theme), which has   *)
(* one monthly contribution field for every account type                     *)

GreenInitialTexts == {"", "50001"}
GreenMonthlyTexts == {"", "500", "3000"}
GreenYearsTexts == {"", "1", "5"}
GreenRateTexts == {"", "100"}

InitGreen ==
    /\ Mount(1)
    /\ args = NoCall
    /\ ret = NoReturn

NextGreen ==
    \/ \E v \in GreenInitialTexts : setInitialInvestment(v)
    \/ \E v \in GreenMonthlyTexts : setMonthlyContribution(v)
    \/ \E v \in GreenYearsTexts : setLengthOfTime(v)
    \/ \E v \in GreenRateTexts : setAnnualReturn(v)
    \/ \E v \in CompoundFrequency : setCompoundFrequency(v)
    \/ \E v \in AccountType : setAccountType(v)

SpecGreen == InitGreen /\ [][NextGreen]_vars

\* C13 (as claimed): with RESP selected there is a warning exactly when the
\* annual contribution times the horizon exceeds 50000 or the initial
\* investment alone exceeds 50000.
C13_RespRule ==
    accountType = "RESP" =>
        ( accountWarning # Null <=>
              \/ RGt(RMul(respAnnualNow, yearsNow), Num(50000))
              \/ RGt(initialNow, Num(50000)) )

\* the text of twelve times a monthly contribution text
TwelvefoldText(monthlyText) ==
    CASE monthlyText = "500" -> "6000"
      [] monthlyText = "3000" -> "36000"
      [] OTHER -> ""

\* what variant 2 feeds the calculator when its annual field of the selected
\* category holds twelve times variant 1's monthly contribution
effectiveMonthlyTwin ==
    effectiveMonthlyBody(accountType, TwelvefoldText(monthlyContribution),
                         TwelvefoldText(monthlyContribution),
                         TwelvefoldText(monthlyContribution),
                         TwelvefoldText(monthlyContribution), monthlyContribution)

accountWarningTwin(income) ==
    accountWarningBody(initialInvestment, accountType,
                       TwelvefoldText(monthlyContribution), income,
                       TwelvefoldText(monthlyContribution),
                       TwelvefoldText(monthlyContribution),
                       TwelvefoldText(monthlyContribution), lengthOfTime)

\* C16 (as claimed): on the same category, initial investment, horizon, rate
\* and frequency, with variant 2's annual contribution twelve times variant
\* 1's monthly one and an RRSP income supplied, variant 1 shows the same
\* projection, trajectory and scenarios as variant 2 and warns under the
\* same conditions.
C16_VariantsAgree ==
    ( /\ variant = 1
      /\ InBounds(initialInvestment, effectiveMonthlyTwin, lengthOfTime, annualReturn,
                  compoundFrequency) ) =>
        /\ results = resultsBody(initialInvestment, effectiveMonthlyTwin, lengthOfTime,
                                 annualReturn, compoundFrequency)
        /\ chartData = chartDataBody(initialInvestment, effectiveMonthlyTwin,
                                     lengthOfTime, annualReturn, compoundFrequency)
        /\ comparisonScenarios =
              comparisonScenariosBody(initialInvestment, effectiveMonthlyTwin,
                                      lengthOfTime, annualReturn, compoundFrequency)
        /\ \A income \in {"100000", "200000"} :
              (accountWarning # Null) <=> (accountWarningTwin(income) # Null)

-----------------------------------------------------------------------------
(* SpecTfsa: a session on the account page (variant 2) around the TFSA       *)
(* fields                                                                    *)

TfsaChoices == {"", "General", "TFSA"}
TfsaAnnualTexts == {"", "0", "6000", "7000", "7001"}
TfsaYearsTexts == {"", "5"}
TfsaInitialTexts == {"", "1000"}
TfsaHorizonTexts == {"", "1", "5"}

InitTfsa ==
    /\ Mount(2)
    /\ args = NoCall
    /\ ret = NoReturn

NextTfsa ==
    \/ \E v \in TfsaChoices : setAccountType(v)
    \/ \E v \in TfsaAnnualTexts : setTfsaAnnualContribution(v)
    \/ \E v \in TfsaYearsTexts : setTfsaContributionYears(v)
    \/ \E v \in TfsaInitialTexts : setInitialInvestment(v)
    \/ \E v \in TfsaHorizonTexts : setLengthOfTime(v)

SpecTfsa == InitTfsa /\ [][NextTfsa]_vars

tfsaAnnualNow == OrZero(parseFloat(tfsaAnnualContribution))

ConfirmationTemplate ==
    IF accountConfirmation = Null THEN "" ELSE accountConfirmation[1].template

\* C11: with TFSA selected, an annual contribution above 7000 gives the
\* warning and no confirmation, one in (0, 7000] gives the confirmation and
\* no warning, and an empty or zero one gives neither.
C11_TfsaRule ==
    accountType = "TFSA" =>
        /\ RGt(tfsaAnnualNow, Num(7000)) =>
              /\ WarningTemplate = "You've exceeded the $7,000 annual TFSA limit"
              /\ accountConfirmation = Null
        /\ (RGt(tfsaAnnualNow, Zero) /\ RLe(tfsaAnnualNow, Num(7000))) =>
              /\ ConfirmationTemplate = "Your annual contribution is within the TFSA limit"
              /\ accountConfirmation[1].shown = <<formatCurrency(tfsaAnnualNow)>>
              /\ accountWarning = Null
        /\ tfsaAnnualNow = Zero =>
              accountWarning = Null /\ accountConfirmation = Null

\* C11 witness: exactly at the cap the contribution is confirmed
C11_Witness ==
    /\ accountType = "TFSA"
    /\ tfsaAnnualContribution = "7000"
    /\ accountConfirmation # Null /\ accountWarning = Null

-----------------------------------------------------------------------------
(* Further claims about the trajectory and the gated outputs (Spec)          *)

\* C21 (as claimed): for every horizon T the gate accepts, the trajectory has
\* exactly T+1 points, their year indices are 0, 1, ..., T in order, and the
\* point of year t has totalContributed = P + M*12*t.
C21_TrajectoryShape ==
    chartData # Null =>
        /\ Num(Len(chartData[1])) = RAdd(yearsNow, One)
        /\ \A i \in 1..Len(chartData[1]) :
              /\ chartData[1][i].year = i - 1
              /\ chartData[1][i].totalContributed =
                    RAdd(initialNow, RMul(RMul(contributionNow, Num(12)), Num(i - 1)))
        /\ Num(LastPoint(chartData[1]).year) = yearsNow

\* the nearest integer to x >= 0, halves rounded up
NearestInteger(x) ==
    CHOOSE k \in 0..101 :
        /\ RLe(RSub(Num(k), Rat(1, 2)), x)
        /\ RLt(x, RAdd(Num(k), Rat(1, 2)))

\* C22 (as claimed): a trajectory point is flagged showLabel exactly when its
\* year is one of 0, round(T/4), round(T/2), round(3T/4), T; so year 0 and
\* year T are always flagged and at most 5 points are.
C22_LabelYears ==
    chartData # Null =>
        /\ \A i \in 1..Len(chartData[1]) :
              chartData[1][i].showLabel <=>
                  Num(chartData[1][i].year) \in
                      {Zero,
                       Num(NearestInteger(RMul(yearsNow, Rat(1, 4)))),
                       Num(NearestInteger(RMul(yearsNow, Rat(1, 2)))),
                       Num(NearestInteger(RMul(yearsNow, Rat(3, 4)))),
                       yearsNow}
        /\ chartData[1][1].year = 0 /\ chartData[1][1].showLabel
        /\ \E i \in 1..Len(chartData[1]) :
              Num(chartData[1][i].year) = yearsNow /\ chartData[1][i].showLabel
        /\ Cardinality({i \in 1..Len(chartData[1]) : chartData[1][i].showLabel}) <= 5

-----------------------------------------------------------------------------
(* Further claims about the advisories of the account page (SpecAdvisory)    *)

\* C23: the warning and the confirmation on the page are those the two
\* advisory bodies give for the current category, initial investment,
\* contribution and income fields and horizon, so equal field values show
\* equal advisories whatever was evaluated before.
C23_AdvisoryDeterministic ==
    /\ accountWarning =
          accountWarningBody(initialInvestment, accountType, tfsaAnnualContribution,
                             rrspAnnualIncome, rrspAnnualContribution,
                             fhsaAnnualContribution, respAnnualContribution,
                             lengthOfTime)
    /\ accountConfirmation =
          accountConfirmationBody(accountType, tfsaAnnualContribution,
                                  rrspAnnualIncome, rrspAnnualContribution,
                                  fhsaAnnualContribution, respAnnualContribution,
                                  lengthOfTime)

\* C23 witness: the RRSP contribution is confirmed after FHSA and RESP had
\* been evaluated with values that warn
C23_Witness ==
    /\ accountType = "RRSP"
    /\ rrspAnnualIncome = "100000" /\ rrspAnnualContribution = "18000"
    /\ fhsaAnnualContribution = "8001" /\ respAnnualContribution = "6000"
    /\ lengthOfTime = "10"
    /\ ConfirmationTemplate = "Your annual contribution is within your RRSP limit"
    /\ accountWarning = Null

-----------------------------------------------------------------------------
(* The engine on a thirty-year scenario (SpecScenario) *)

\* The growth factor of a long horizon, (1 + r/n)^(n*t) with several hundred
\* periods, has a numerator and a denominator of about a thousand digits.
\* Here the engine's arithmetic is carried out on fixed-point numbers with
\* WideFraction limbs after the point, each operation rounded once downwards
\* and once upwards, so that every result is a pair of bounds that encloses
\* the real value of the engine's expression.
WideBase == 1000
WideLimbs == 10
WideFraction == 6
MaxPeriods == 400

\* a wide number is the tuple of its WideLimbs limbs, least significant first
RECURSIVE wideTimesFrom(_, _, _, _)
wideTimesFrom(w, m, i, carry) ==
    IF i > WideLimbs THEN <<>>
    ELSE <<(w[i] * m + carry) % WideBase>>
            \o wideTimesFrom(w, m, i + 1, (w[i] * m + carry) \div WideBase)

\* w * m, for a natural number m up to two million
wideTimes(w, m) == wideTimesFrom(w, m, 1, 0)

RECURSIVE wideOverFrom(_, _, _, _)
wideOverFrom(w, d, i, rem) ==
    IF i = 0 THEN <<>>
    ELSE wideOverFrom(w, d, i - 1, (rem * WideBase + w[i]) % d)
            \o <<(rem * WideBase + w[i]) \div d>>

RECURSIVE wideRemainder(_, _, _, _)
wideRemainder(w, d, i, rem) ==
    IF i = 0 THEN rem ELSE wideRemainder(w, d, i - 1, (rem * WideBase + w[i]) % d)

RECURSIVE widePlusFrom(_, _, _, _)
widePlusFrom(a, b, i, carry) ==
    IF i > WideLimbs THEN <<>>
    ELSE <<(a[i] + b[i] + carry) % WideBase>>
            \o widePlusFrom(a, b, i + 1, (a[i] + b[i] + carry) \div WideBase)

widePlus(a, b) == widePlusFrom(a, b, 1, 0)

RECURSIVE wideMinusFrom(_, _, _, _)
wideMinusFrom(a, b, i, borrow) ==
    IF i > WideLimbs THEN <<>>
    ELSE <<(a[i] - b[i] - borrow + WideBase) % WideBase>>
            \o wideMinusFrom(a, b, i + 1, IF a[i] - b[i] - borrow < 0 THEN 1 ELSE 0)

\* a - b, for a >= b
wideMinus(a, b) == wideMinusFrom(a, b, 1, 0)

wideUnit == [i \in 1..WideLimbs |-> IF i = 1 THEN 1 ELSE 0]
wideOne == [i \in 1..WideLimbs |-> IF i = WideFraction + 1 THEN 1 ELSE 0]

\* floor(w / d) and ceiling(w / d), for a natural number d up to two million
wideOverDown(w, d) == wideOverFrom(w, d, WideLimbs, 0)
wideOverUp(w, d) ==
    IF wideRemainder(w, d, WideLimbs, 0) = 0 THEN wideOverDown(w, d)
    ELSE widePlus(wideOverDown(w, d), wideUnit)

\* the bounds of x * q, for bounds x and an exact q >= 0; bounds that have
\* outgrown their limbs stay as they are
boundsTimes(x, q) ==
    IF x.high[WideLimbs] # 0 THEN x
    ELSE [low |-> wideOverDown(wideTimes(x.low, q.num), q.den),
          high |-> wideOverUp(wideTimes(x.high, q.num), q.den)]

boundsPlus(x, y) == [low |-> widePlus(x.low, y.low), high |-> widePlus(x.high, y.high)]

exactly(q) == boundsTimes([low |-> wideOne, high |-> wideOne], q)

\* Math.pow(base, k) for a whole number k of periods: k multiplications of
\* x by base, the first half of them and then the rest
RECURSIVE powBounds(_, _, _)
powBounds(base, k, x) ==
    IF k = 0 \/ x.high[WideLimbs] # 0 THEN x
    ELSE IF k = 1 THEN boundsTimes(x, base)
    ELSE powBounds(base, k - k \div 2, powBounds(base, k \div 2, x))

MathPowBounds(base, e) == powBounds(base, e.num, exactly(One))

\* whole thousandths below and above a wide number, a thousandth further out
\* on each side for the rounding of the engine's binary floating point
thousandthsOf(w) ==
    (w[WideFraction + 1] + WideBase * w[WideFraction + 2]
        + WideBase * WideBase * w[WideFraction + 3]) * 1000
    + (w[WideFraction] * 1000) \div WideBase

thousandthsBounds(x) ==
    [low |-> thousandthsOf(x.low) - 1, high |-> thousandthsOf(x.high) + 2]

\* const compoundPrincipal = P * Math.pow(1 + r / n, n * t)
compoundPrincipalBounds(P, r, n, t) ==
    boundsTimes(MathPowBounds(RAdd(One, RDiv(r, Num(n))), RMul(Num(n), t)), P)

\* the annuity with every payment at the start of its period
annuityValueBoundsDue(PMT, r, n, t) ==
    IF RGt(r, Zero)
    THEN boundsTimes(boundsTimes(boundsTimes([low |-> wideMinus(MathPowBounds(RAdd(One, RDiv(r, Num(n))), RMul(Num(n), t)).low, wideOne),
                                  high |-> wideMinus(MathPowBounds(RAdd(One, RDiv(r, Num(n))), RMul(Num(n), t)).high, wideOne)],
                                 RDiv(One, RDiv(r, Num(n)))),
                     PMT), RAdd(One, RDiv(r, Num(n))))
    ELSE exactly(RMul(RMul(PMT, Num(n)), t))

\* r > 0 ? PMT * ((Math.pow(1 + r / n, n * t) - 1) / (r / n)) : PMT * n * t
annuityValueBounds(PMT, r, n, t) ==
    IF RGt(r, Zero)
    THEN boundsTimes(boundsTimes([low |-> wideMinus(MathPowBounds(RAdd(One, RDiv(r, Num(n))), RMul(Num(n), t)).low, wideOne),
                                  high |-> wideMinus(MathPowBounds(RAdd(One, RDiv(r, Num(n))), RMul(Num(n), t)).high, wideOne)],
                                 RDiv(One, RDiv(r, Num(n)))),
                     PMT)
    ELSE exactly(RMul(RMul(PMT, Num(n)), t))

\* the returned object in thousandths, totalInterest = totalBalance - totalContributed
totalsBounds(totalBalance, totalContributed) ==
    [totalBalance |-> thousandthsBounds(totalBalance),
     totalContributed |-> totalContributed,
     totalInterest |->
        [low |-> thousandthsBounds(totalBalance).low - MathFloor(RMul(totalContributed, Num(1000))),
         high |-> thousandthsBounds(totalBalance).high - MathFloor(RMul(totalContributed, Num(1000)))]]

calculateCompoundInterestBounds(initial, monthly, annualRate, years, frequency) ==
    totalsBounds(boundsPlus(compoundPrincipalBounds(initial, RDiv(annualRate, Num(100)),
                                                    getCompoundFrequencyPerYear(frequency), years),
                            annuityValueBounds(getContributionPerPeriod(monthly, frequency),
                                               RDiv(annualRate, Num(100)),
                                               getCompoundFrequencyPerYear(frequency), years)),
                 RAdd(initial, RMul(RMul(monthly, Num(12)), years)))

\* The scenarios: whole horizons of up to thirty years at 0% and 7%, with
\* at most MaxPeriods compounding periods.
ScenarioPrincipals == {Zero, Num(1000)}
ScenarioContributions == {Zero, Num(500)}
ScenarioRates == {Zero, Num(7)}
ScenarioHorizons == {Num(1), Num(10), Num(30)}

ScenarioSpace ==
    {a \in [P : ScenarioPrincipals, M : ScenarioContributions, R : ScenarioRates, T : ScenarioHorizons, F : CompoundFrequency] :
        getCompoundFrequencyPerYear(a.F) * a.T.num <= MaxPeriods}

InitScenario ==
    /\ Mount(2)
    /\ args \in ScenarioSpace
    /\ ret = NoReturn

callCalculateCompoundInterestBounds ==
    /\ ret' = [ret EXCEPT
                 !.ci = Some(calculateCompoundInterestBounds(args.P, args.M, args.R,
                                                             args.T, args.F))]
    /\ UNCHANGED <<variant, fieldVars, memoVars, args>>

NextScenario ==
    \/ callGetCompoundFrequencyPerYear
    \/ callGetContributionPerPeriod
    \/ callCalculateCompoundInterestBounds

SpecScenario == InitScenario /\ [][NextScenario]_vars

ThirtyYearScenario ==
    args = [P |-> Zero, M |-> Num(500), R |-> Num(7), T |-> Num(30), F |-> "Monthly"]

\* bounds in thousandths that round to the whole amount `units`
RoundsTo(b, units) == units * 1000 - 500 <= b.low /\ b.high < units * 1000 + 500

\* C24 as stated: for P = 0, M = 500, R = 7%, T = 30, Monthly the engine
\* uses 12 periods per year and 500 per period, and returns
\* totalContributed = 180,000, totalBalance 609,245 and totalInterest
\* 429,245 to the whole unit.
C24_ScenarioAsClaimed ==
    ThirtyYearScenario =>
        /\ ret.n # Null => ret.n[1] = 12
        /\ ret.PMT # Null => ret.PMT[1] = Num(500)
        /\ ret.ci # Null =>
              /\ ret.ci[1].totalContributed = Num(180000)
              /\ RoundsTo(ret.ci[1].totalBalance, 609245)
              /\ RoundsTo(ret.ci[1].totalInterest, 429245)

\* C24, amended: in that scenario the engine uses 12 periods per year and
\* 500 per period, and returns totalContributed = 180,000, totalBalance
\* 609,985 and totalInterest 429,985 to the whole unit.
C24_Scenario ==
    ThirtyYearScenario =>
        /\ ret.n # Null => ret.n[1] = 12
        /\ ret.PMT # Null => ret.PMT[1] = Num(500)
        /\ ret.ci # Null =>
              /\ ret.ci[1].totalContributed = Num(180000)
              /\ RoundsTo(ret.ci[1].totalBalance, 609985)
              /\ RoundsTo(ret.ci[1].totalInterest, 429985)

C24_Witness ==
    /\ ThirtyYearScenario
    /\ ret.n # Null /\ ret.PMT # Null /\ ret.ci # Null
    /\ RoundsTo(ret.ci[1].totalBalance, 609985)

\* C25: the projection, the trajectory and the scenario list are gated
\* together: in every reachable state of the fields they are either all
\* present or all absent.
C25_GatedTogether ==
    \/ results = Null /\ chartData = Null /\ comparisonScenarios = Null
    \/ results # Null /\ chartData # Null /\ comparisonScenarios # Null

C25_Witness ==
    /\ lengthOfTime = "0.5" /\ initialInvestment = "1000"
    /\ results # Null /\ chartData # Null /\ comparisonScenarios # Null

-----------------------------------------------------------------------------
(* The fields that are not on screen (SpecHidden) *)

\* Variant 2 with every account type, where the general monthly contribution
\* and the fields of three categories are filled in one after the other, so
\* that a field keeps its text after its input has left the screen.
HiddenInitialTexts == {"", "1000"}
HiddenHorizonTexts == {"", "5"}
HiddenMonthlyTexts == {"", "500"}
HiddenTfsaTexts == {"", "6000"}
HiddenTfsaYearsTexts == {"", "5"}
HiddenRrspTexts == {"", "18000"}
HiddenFhsaTexts == {"", "8000"}
HiddenRespTexts == {"", "2500"}

InitHidden ==
    /\ Mount(2)
    /\ args = NoCall
    /\ ret = NoReturn

NextHidden ==
    \/ \E v \in AccountType : setAccountType(v)
    \/ \E v \in HiddenInitialTexts : setInitialInvestment(v)
    \/ \E v \in HiddenHorizonTexts : setLengthOfTime(v)
    \/ \E v \in HiddenMonthlyTexts : setMonthlyContribution(v)
    \/ \E v \in HiddenTfsaTexts : setTfsaAnnualContribution(v)
    \/ \E v \in HiddenTfsaYearsTexts : setTfsaContributionYears(v)
    \/ \E v \in HiddenRrspTexts : setRrspAnnualContribution(v)
    \/ \E v \in HiddenFhsaTexts : setFhsaAnnualContribution(v)

SpecHidden == InitHidden /\ [][NextHidden]_vars

\* what the page shows, and what it would show with other texts in the
\* monthly contribution and in the four categories' contribution fields
Shown == <<results, chartData, comparisonScenarios, accountWarning, accountConfirmation>>

ShownWith(m, tfsa, rrsp, fhsa, resp) ==
    <<resultsBody(initialInvestment, effectiveMonthlyBody(accountType, tfsa, rrsp, fhsa, resp, m), lengthOfTime, annualReturn, compoundFrequency),
      chartDataBody(initialInvestment, effectiveMonthlyBody(accountType, tfsa, rrsp, fhsa, resp, m), lengthOfTime, annualReturn, compoundFrequency),
      comparisonScenariosBody(initialInvestment, effectiveMonthlyBody(accountType, tfsa, rrsp, fhsa, resp, m), lengthOfTime, annualReturn, compoundFrequency),
      accountWarningBody(initialInvestment, accountType, tfsa, rrspAnnualIncome, rrsp, fhsa, resp, lengthOfTime),
      accountConfirmationBody(accountType, tfsa, rrspAnnualIncome, rrsp, fhsa, resp, lengthOfTime)>>

\* the texts a category's own contribution field may keep or the others may take
OwnOrAny(category, own, texts) == IF accountType = category THEN {own} ELSE texts

\* C26: while TFSA, RRSP, FHSA or RESP is selected, the projection, the
\* trajectory, the scenarios and the advisory are the same whatever the
\* monthly contribution and the other categories' contribution fields hold;
\* and an edit of the TFSA years of contribution history changes none of them.
C26_HiddenFieldsIgnored ==
    /\ [](accountType \in {"TFSA", "RRSP", "FHSA", "RESP"} =>
            \A m \in HiddenMonthlyTexts :
            \A tfsa \in OwnOrAny("TFSA", tfsaAnnualContribution, HiddenTfsaTexts) :
            \A rrsp \in OwnOrAny("RRSP", rrspAnnualContribution, HiddenRrspTexts) :
            \A fhsa \in OwnOrAny("FHSA", fhsaAnnualContribution, HiddenFhsaTexts) :
            \A resp \in OwnOrAny("RESP", respAnnualContribution, HiddenRespTexts) :
                ShownWith(m, tfsa, rrsp, fhsa, resp) = Shown)
    /\ [][tfsaContributionYears' # tfsaContributionYears => Shown' = Shown]_vars

\* C26 witness: RRSP is selected and shows the projection of its own 18,000
\* a year, while the monthly contribution, the TFSA and the FHSA fields still
\* hold what was typed before, and the TFSA history has been filled in
C26_Witness ==
    /\ accountType = "RRSP" /\ rrspAnnualContribution = "18000"
    /\ monthlyContribution = "500" /\ tfsaAnnualContribution = "6000"
    /\ fhsaAnnualContribution = "8000" /\ tfsaContributionYears = "5"
    /\ lengthOfTime = "5" /\ initialInvestment = "1000"
    /\ results # Null
    /\ results[1].totalContributed = Num(91000)

-----------------------------------------------------------------------------
(* Further claims about the page (Spec) *)

\* C27: the warning and the confirmation are determined by the category, the
\* initial investment, the category's contribution and income fields and the
\* horizon; an edit of the return rate or of the compounding frequency, to
\* an invalid value as well, leaves both as they are.
C27_AdvisoryIgnoresRateAndFrequency ==
    /\ [](/\ accountWarning = accountWarningNow
          /\ accountConfirmation = IF variant = 2 THEN accountConfirmationNow ELSE Null)
    /\ [][annualReturn' # annualReturn \/ compoundFrequency' # compoundFrequency
            => /\ accountWarning' = accountWarning
               /\ accountConfirmation' = accountConfirmation]_vars

\* C27 witness: a RESP warning stays on the page after the return rate was
\* set to 101 and the compounding frequency to Daily
C27_Witness ==
    /\ accountType = "RESP" /\ accountWarning # Null
    /\ annualReturn = "101" /\ compoundFrequency = "Daily"
    /\ results = Null

-----------------------------------------------------------------------------
(* Further claims about the frequency resolvers (SpecResolver) *)

\* C28: for each of the five frequencies and every monthly amount M, the
\* contribution per period times the periods per year is exactly 12 * M.
C28_TwelveMonthsAYear ==
    args.F \in CompoundFrequency /\ ret.n # Null /\ ret.PMT # Null =>
        RMul(ret.PMT[1], Num(ret.n[1])) = RMul(Num(12), args.M)

\* C28 witness: both resolvers have answered for Daily and a monthly amount
\* that 365 does not divide
C28_Witness ==
    /\ args.F = "Daily" /\ args.M = Rat(250, 3)
    /\ ret.n = Some(365) /\ ret.PMT = Some(Rat(200, 73))

-----------------------------------------------------------------------------
(* Further claims about the engine (SpecCalc) *)

-----------------------------------------------------------------------------
(* The FHSA lifetime projection (SpecFhsa) *)

\* Variant 2 with the FHSA fields, annual contributions on both sides of the
\* 8,000 limit and horizons on both sides of the year the lifetime limit is hit.
FhsaChoices == {"", "General", "FHSA"}
FhsaAnnualTexts == {"", "-8000", "3000", "6000", "7001", "8000", "8001"}
FhsaHorizonTexts == {"", "5", "10", "100"}
FhsaInitialTexts == {"", "40000", "50001"}

InitFhsa ==
    /\ Mount(2)
    /\ args = NoCall
    /\ ret = NoReturn

NextFhsa ==
    \/ \E v \in FhsaChoices : setAccountType(v)
    \/ \E v \in FhsaAnnualTexts : setFhsaAnnualContribution(v)
    \/ \E v \in FhsaHorizonTexts : setLengthOfTime(v)
    \/ \E v \in FhsaInitialTexts : setInitialInvestment(v)

SpecFhsa == InitFhsa /\ [][NextFhsa]_vars

\* the number of years in the third FHSA warning
yearsUntilLimitShown == accountWarning[1].shown[1].shown

\* C30: whenever the third FHSA check is the one on the page, the years it
\* reports are floor(40,000 / annual), at least 5 and strictly below the
\* entered horizon, with 0 < annual <= 8,000 and annual * years > 40,000.
C30_YearsUntilLimit ==
    accountType = "FHSA" /\ WarningTemplate = "You'll hit the $40,000 FHSA lifetime limit" =>
        /\ RGt(fhsaAnnualNow, Zero) /\ RLe(fhsaAnnualNow, Num(8000))
        /\ RGt(RMul(fhsaAnnualNow, yearsNow), Num(40000))
        /\ yearsUntilLimitShown = Num(MathFloor(RDiv(Num(40000), fhsaAnnualNow)))
        /\ RGe(yearsUntilLimitShown, Num(5))
        /\ RLt(yearsUntilLimitShown, yearsNow)

\* C30 witness: 6,000 a year over 10 years reaches the limit in year 6
C30_Witness ==
    /\ accountType = "FHSA" /\ fhsaAnnualContribution = "6000" /\ lengthOfTime = "10"
    /\ WarningTemplate = "You'll hit the $40,000 FHSA lifetime limit"
    /\ yearsUntilLimitShown = Num(6)

====
